---- MODULE Spec2Model ----
(***************************************************************************)
(* BinomialMinHeap<Comparable> (src/Heaps/BinomialMinHeap.h) as a state    *)
(* machine.  Nodes live in an arena addressed by id (a pointer is a node   *)
(* id, nullptr is NULL); every heap object owns a forest vector and mSize. *)
(* C++ vector index i is Sequence index i+1.                               *)
(***************************************************************************)
EXTENDS Integers, Sequences, FiniteSets, TLC

\* ---- bounds of the model ------------------------------------------------
MaxNodes == 4        \* node ids available to operator new
MaxVal == 2          \* Comparable values are 1..MaxVal
NumHeaps == 2        \* heap objects of the client program
MaxForest == 3       \* longest forest vector a step of a self-merge may produce
MaxSize == 4         \* largest mSize an insert or a merge may produce
MaxAfter == 1        \* calls followed after a store went past the end of a vector

NULL == 0            \* nullptr
TMP == 0             \* the local vector deletedRootChildren of deleteMin
Heaps == 1..NumHeaps
NodeIds == 1..MaxNodes
Values == 1..MaxVal

VARIABLES
    node,      \* arena: node id -> BinomialTreeNode
    live,      \* node ids allocated by new and not yet deleted
    forest,    \* forest[h]: the vector of tree roots of heap h
    mSize,     \* mSize[h]
    exists,    \* heap objects within their lifetime
    pc,        \* position of the running call: idle, inside mergeForest, crashed
    last,      \* the call that returned last, or the one running or killed
    contents,  \* ghost: bag of values put into heap h and not yet removed
    after      \* ghost: 0, or 1 + the calls begun since a store went past the end

vars == <<node, live, forest, mSize, exists, pc, last, contents, after>>

\* ---- helpers --------------------------------------------------------------
pow2(k) == 2 ^ k

\* storage of a node that is not allocated
Blank == [data |-> 0, leftChild |-> NULL, nextSibling |-> NULL, order |-> 0]

\* BinomialTreeNode(data): both links null, order 0
BinomialTreeNode(d) ==
    [data |-> d, leftChild |-> NULL, nextSibling |-> NULL, order |-> 0]

EmptyBag == [v \in Values |-> 0]
BagAdd(b, v) == [b EXCEPT ![v] = @ + 1]
BagRemove(b, v) == [b EXCEPT ![v] = @ - 1]
BagUnion(a, b) == [v \in Values |-> a[v] + b[v]]
RECURSIVE BagCardUpTo(_, _)
BagCardUpTo(b, v) == IF v = 0 THEN 0 ELSE b[v] + BagCardUpTo(b, v - 1)
BagCard(b) == BagCardUpTo(b, MaxVal)
BagMin(b) == CHOOSE v \in Values : b[v] > 0 /\ \A w \in Values : b[w] > 0 => v <= w
\* the values of bag b in non-decreasing order
RECURSIVE BagSortedFrom(_, _, _)
BagSortedFrom(b, v, k) ==
    IF v > MaxVal THEN <<>>
    ELSE IF k < b[v] THEN <<v>> \o BagSortedFrom(b, v, k + 1)
    ELSE BagSortedFrom(b, v + 1, 0)
BagSorted(b) == BagSortedFrom(b, 1, 0)

\* the machine state the member functions work on; forest gets the extra
\* key TMP for the local vector of deleteMin; oob records an out-of-range
\* vector access made on the way
Mach ==
    [node |-> node, live |-> live, forest |-> forest @@ (TMP :> <<>>),
     mSize |-> mSize, oob |-> FALSE]

\* operator new: the lowest free id
NewId(m) == CHOOSE n \in NodeIds \ m.live : \A o \in NodeIds \ m.live : n <= o
Alloc(m, rec) ==
    [m EXCEPT !.node[NewId(m)] = rec, !.live = @ \cup {NewId(m)}]
\* delete p
Delete(m, p) == [m EXCEPT !.node[p] = Blank, !.live = @ \ {p}]

\* ---- private member functions -------------------------------------------

\* combineTrees that also swaps when the two roots hold equal values
combineTreesSwapOnTie(nd, first, second) ==
    IF first = NULL /\ second = NULL THEN [node |-> nd, root |-> NULL]
    ELSE IF first = NULL THEN [node |-> nd, root |-> second]
    ELSE IF second = NULL THEN [node |-> nd, root |-> first]
    ELSE LET swap == nd[first].data >= nd[second].data
             f == IF swap THEN second ELSE first
             s == IF swap THEN first ELSE second
             n1 == [nd EXCEPT ![s].nextSibling = nd[f].leftChild]
             n2 == [n1 EXCEPT ![f].leftChild = s]
             n3 == [n2 EXCEPT ![f].order = @ + 1]
         IN [node |-> n3, root |-> f]

\* combineTrees without the swap: first is always the root
combineTreesNoSwap(nd, first, second) ==
    IF first = NULL /\ second = NULL THEN [node |-> nd, root |-> NULL]
    ELSE IF first = NULL THEN [node |-> nd, root |-> second]
    ELSE IF second = NULL THEN [node |-> nd, root |-> first]
    ELSE LET n1 == [nd EXCEPT ![second].nextSibling = nd[first].leftChild]
             n2 == [n1 EXCEPT ![first].leftChild = second]
             n3 == [n2 EXCEPT ![first].order = @ + 1]
         IN [node |-> n3, root |-> first]

\* combineTrees that forgets first->order++
combineTreesKeepOrder(nd, first, second) ==
    IF first = NULL /\ second = NULL THEN [node |-> nd, root |-> NULL]
    ELSE IF first = NULL THEN [node |-> nd, root |-> second]
    ELSE IF second = NULL THEN [node |-> nd, root |-> first]
    ELSE LET swap == nd[first].data > nd[second].data
             f == IF swap THEN second ELSE first
             s == IF swap THEN first ELSE second
             n1 == [nd EXCEPT ![s].nextSibling = nd[f].leftChild]
             n2 == [n1 EXCEPT ![f].leftChild = s]
         IN [node |-> n2, root |-> f]

\* combineTrees(first, second): the larger root becomes the first child of
\* the smaller one.  The three assignments are applied in source order, so
\* first = second is what the code does with one node passed twice.
combineTrees(nd, first, second) ==
    IF first = NULL /\ second = NULL THEN [node |-> nd, root |-> NULL]
    ELSE IF first = NULL THEN [node |-> nd, root |-> second]
    ELSE IF second = NULL THEN [node |-> nd, root |-> first]
    ELSE LET swap == nd[first].data > nd[second].data
             f == IF swap THEN second ELSE first
             s == IF swap THEN first ELSE second
             n1 == [nd EXCEPT ![s].nextSibling = nd[f].leftChild]
             n2 == [n1 EXCEPT ![f].leftChild = s]
             n3 == [n2 EXCEPT ![f].order = @ + 1]
         IN [node |-> n3, root |-> f]

\* the while loop of insertTree
RECURSIVE insertTreeLoop(_, _, _, _)
insertTreeLoop(m, h, treeNode, treeOrder) ==
    IF treeOrder < Len(m.forest[h]) /\ m.forest[h][treeOrder + 1] /= NULL
    THEN LET c == combineTrees(m.node, m.forest[h][treeOrder + 1], treeNode)
             m1 == [m EXCEPT !.node = c.node,
                             !.forest[h][treeOrder + 1] = NULL]
         IN insertTreeLoop(m1, h, c.root, treeOrder + 1)
    ELSE [m |-> m, treeNode |-> treeNode, treeOrder |-> treeOrder]

\* insertTree(treeNode) on heap h.  forest[treeOrder] = treeNode with
\* treeOrder > forest.size() is a store past the end of the vector: the
\* vector keeps its size and contents, oob is set.
insertTree(m, h, treeNode) ==
    IF treeNode = NULL THEN m
    ELSE LET treeOrder == m.node[treeNode].order
             m0 == [m EXCEPT !.mSize[h] = @ + pow2(treeOrder)]
             r == insertTreeLoop(m0, h, treeNode, treeOrder)
         IN IF r.treeOrder = Len(r.m.forest[h])
            THEN [r.m EXCEPT !.forest[h] = Append(@, r.treeNode)]
            ELSE IF r.treeOrder < Len(r.m.forest[h])
            THEN [r.m EXCEPT !.forest[h][r.treeOrder + 1] = r.treeNode]
            ELSE [r.m EXCEPT !.oob = TRUE]

\* the iteration of mergeForest without otherForest[order] = nullptr
mergeForestIterKeepSlot(m, h, other, order) ==
    IF m.forest[other][order + 1] /= NULL
    THEN insertTree(m, h, m.forest[other][order + 1])
    ELSE m

\* one iteration of the while loop of mergeForest(otherForest), where
\* otherForest is the vector forest[other] (it may be forest[h] itself)
mergeForestIter(m, h, other, order) ==
    IF m.forest[other][order + 1] /= NULL
    THEN LET m1 == insertTree(m, h, m.forest[other][order + 1])
         IN [m1 EXCEPT !.forest[other][order + 1] = NULL]
    ELSE m

\* mergeForest(otherForest) from position order on, for a vector other
\* that is not the receiver's forest
RECURSIVE mergeForestFrom(_, _, _, _)
mergeForestFrom(m, h, other, order) ==
    IF order < Len(m.forest[other])
    THEN mergeForestFrom(mergeForestIter(m, h, other, order), h, other, order + 1)
    ELSE m

\* the loop of minNodeIndex with <= for <: the last minimal slot wins
RECURSIVE minNodeIndexLoopLast(_, _, _, _, _)
minNodeIndexLoopLast(m, h, i, min, minIndex) ==
    IF i < Len(m.forest[h])
    THEN LET n == m.forest[h][i + 1]
         IN IF n /= NULL /\ (min = NULL \/ m.node[n].data <= m.node[min].data)
            THEN minNodeIndexLoopLast(m, h, i + 1, n, i)
            ELSE minNodeIndexLoopLast(m, h, i + 1, min, minIndex)
    ELSE minIndex

\* the loop of minNodeIndex with the comparison turned round
RECURSIVE minNodeIndexLoopGreater(_, _, _, _, _)
minNodeIndexLoopGreater(m, h, i, min, minIndex) ==
    IF i < Len(m.forest[h])
    THEN LET n == m.forest[h][i + 1]
         IN IF n /= NULL /\ (min = NULL \/ m.node[n].data > m.node[min].data)
            THEN minNodeIndexLoopGreater(m, h, i + 1, n, i)
            ELSE minNodeIndexLoopGreater(m, h, i + 1, min, minIndex)
    ELSE minIndex

\* the for loop of minNodeIndex: min is the best node so far
RECURSIVE minNodeIndexLoop(_, _, _, _, _)
minNodeIndexLoop(m, h, i, min, minIndex) ==
    IF i < Len(m.forest[h])
    THEN LET n == m.forest[h][i + 1]
         IN IF n /= NULL /\ (min = NULL \/ m.node[n].data < m.node[min].data)
            THEN minNodeIndexLoop(m, h, i + 1, n, i)
            ELSE minNodeIndexLoop(m, h, i + 1, min, minIndex)
    ELSE minIndex
minNodeIndex(m, h) == minNodeIndexLoop(m, h, 0, NULL, -1)

isEmpty(m, h) == m.mSize[h] = 0
size(m, h) == m.mSize[h]

\* the while(child) loop of deleteMin without child->nextSibling = nullptr
RECURSIVE detachChildrenKeepSibling(_, _)
detachChildrenKeepSibling(m, child) ==
    IF child = NULL THEN m
    ELSE LET o == m.node[child].order
             m1 == IF o < Len(m.forest[TMP])
                   THEN [m EXCEPT !.forest[TMP][o + 1] = child]
                   ELSE [m EXCEPT !.oob = TRUE]
         IN detachChildrenKeepSibling(m1, m.node[child].nextSibling)

\* the while(child) loop of deleteMin, filling deletedRootChildren
RECURSIVE detachChildren(_, _)
detachChildren(m, child) ==
    IF child = NULL THEN m
    ELSE LET o == m.node[child].order
             m1 == IF o < Len(m.forest[TMP])
                   THEN [m EXCEPT !.forest[TMP][o + 1] = child]
                   ELSE [m EXCEPT !.oob = TRUE]
             nextChild == m.node[child].nextSibling
             m2 == [m1 EXCEPT !.node[child].nextSibling = NULL]
         IN detachChildren(m2, nextChild)

\* deleteMin that takes 1 off mSize instead of pow(2, minRoot->order)
deleteMinBodyMinusOne(m, h) ==
    LET minRoot == m.forest[h][minNodeIndex(m, h) + 1]
        k == m.node[minRoot].order
        m1 == [m EXCEPT !.forest[TMP] = [i \in 1..(k + 2) |-> NULL],
                        !.mSize[h] = @ - 1]
        child == m.node[minRoot].leftChild
        m2 == IF k < Len(m1.forest[h])
              THEN [m1 EXCEPT !.forest[h][k + 1] = NULL]
              ELSE [m1 EXCEPT !.oob = TRUE]
        m3 == Delete(m2, minRoot)
        m4 == detachChildren(m3, child)
        m5 == mergeForestFrom(m4, h, TMP, 0)
    IN [m5 EXCEPT !.forest[TMP] = <<>>]

\* deleteMin() past the emptiness test, when minNodeIndex() found a root, up
\* to the call of mergeForest(deletedRootChildren)
deleteMinDetached(m, h) ==
    LET minRoot == m.forest[h][minNodeIndex(m, h) + 1]
        k == m.node[minRoot].order
        m1 == [m EXCEPT !.forest[TMP] = [i \in 1..(k + 2) |-> NULL],
                        !.mSize[h] = @ - pow2(k)]
        child == m.node[minRoot].leftChild
        m2 == IF k < Len(m1.forest[h])
              THEN [m1 EXCEPT !.forest[h][k + 1] = NULL]
              ELSE [m1 EXCEPT !.oob = TRUE]
        m3 == Delete(m2, minRoot)
    IN detachChildren(m3, child)

\* deleteMin() past the emptiness test, when minNodeIndex() found a root
deleteMinBody(m, h) ==
    LET m5 == mergeForestFrom(deleteMinDetached(m, h), h, TMP, 0)
    IN [m5 EXCEPT !.forest[TMP] = <<>>]

\* cloneTree that leaves the order of the new nodes at 0
RECURSIVE cloneTreeNoOrder(_, _)
cloneTreeNoOrder(m, tree) ==
    IF tree = NULL THEN [m |-> m, root |-> NULL]
    ELSE LET newNode == NewId(m)
             m0 == Alloc(m, BinomialTreeNode(m.node[tree].data))
             l == cloneTreeNoOrder(m0, m.node[tree].leftChild)
             m1 == [l.m EXCEPT !.node[newNode].leftChild = l.root]
             s == cloneTreeNoOrder(m1, m.node[tree].nextSibling)
             m2 == [s.m EXCEPT !.node[newNode].nextSibling = s.root]
         IN [m |-> m2, root |-> newNode]

\* cloneTree that copies the root only and shares the children
cloneTreeShallow(m, tree) ==
    IF tree = NULL THEN [m |-> m, root |-> NULL]
    ELSE LET newNode == NewId(m)
             m0 == Alloc(m, m.node[tree])
         IN [m |-> m0, root |-> newNode]

\* cloneTree(tree): a new node per node of tree, left child first, then
\* the sibling chain; root is the copy of tree
RECURSIVE cloneTree(_, _)
cloneTree(m, tree) ==
    IF tree = NULL THEN [m |-> m, root |-> NULL]
    ELSE LET newNode == NewId(m)
             m0 == Alloc(m, BinomialTreeNode(m.node[tree].data))
             l == cloneTree(m0, m.node[tree].leftChild)
             m1 == [l.m EXCEPT !.node[newNode].leftChild = l.root]
             s == cloneTree(m1, m.node[tree].nextSibling)
             m2 == [s.m EXCEPT !.node[newNode].nextSibling = s.root,
                               !.node[newNode].order = m.node[tree].order]
         IN [m |-> m2, root |-> newNode]

\* the number of nodes cloneTree(tree) allocates
RECURSIVE nodeCount(_, _)
nodeCount(nd, tree) ==
    IF tree = NULL THEN 0
    ELSE 1 + nodeCount(nd, nd[tree].leftChild) + nodeCount(nd, nd[tree].nextSibling)
RECURSIVE forestNodeCount(_, _, _)
forestNodeCount(nd, f, i) ==
    IF i > Len(f) THEN 0 ELSE nodeCount(nd, f[i]) + forestNodeCount(nd, f, i + 1)

\* makeEmpty(tree): left child, then siblings, then the node itself
RECURSIVE makeEmpty(_, _)
makeEmpty(m, tree) ==
    IF tree = NULL THEN m
    ELSE LET m1 == makeEmpty(m, m.node[tree].leftChild)
             m2 == makeEmpty(m1, m1.node[tree].nextSibling)
         IN Delete(m2, tree)

\* clearForest(trees) for the vector forest[v]: mSize is not written
RECURSIVE clearForestFrom(_, _, _)
clearForestFrom(m, v, i) ==
    IF i > Len(m.forest[v]) THEN [m EXCEPT !.forest[v] = <<>>]
    ELSE clearForestFrom(makeEmpty(m, m.forest[v][i]), v, i + 1)
clearForest(m, v) == clearForestFrom(m, v, 1)

\* the loops of the copy constructor and of copy assignment:
\* forest.push_back(cloneTree(other.forest[i]))
RECURSIVE cloneForestFrom(_, _, _, _)
cloneForestFrom(m, d, s, i) ==
    IF i > Len(m.forest[s]) THEN m
    ELSE LET c == cloneTree(m, m.forest[s][i])
         IN cloneForestFrom([c.m EXCEPT !.forest[d] = Append(@, c.root)], d, s, i + 1)

\* ---- the calls of the client program --------------------------------------
Idle == [kind |-> "idle", this |-> 0, other |-> 0, order |-> 0]
Crashed == [kind |-> "crashed", this |-> 0, other |-> 0, order |-> 0]
InMerge(h, o, i) == [kind |-> "merge", this |-> h, other |-> o, order |-> i]
Ret(op, h, o, raised, ret) ==
    [op |-> op, h |-> h, other |-> o, raised |-> raised, ret |-> ret]

\* write the machine state m back
Commit(m) ==
    /\ node' = m.node
    /\ live' = m.live
    /\ forest' = [h \in Heaps |-> m.forest[h]]
    /\ mSize' = m.mSize

\* The addresses operator new hands out are not observable by the program.
\* Between calls the state is kept up to renaming of addresses: the nodes
\* reachable from the heaps are numbered in the order a walk over heaps,
\* slots, left child and next sibling meets them; nodes that are allocated
\* but reachable from no heap keep their storage and nothing else.
RECURSIVE preorder(_, _)
preorder(nd, t) ==
    IF t = NULL THEN <<>>
    ELSE <<t>> \o preorder(nd, nd[t].leftChild) \o preorder(nd, nd[t].nextSibling)
RECURSIVE forestOrder(_, _, _)
forestOrder(nd, f, i) ==
    IF i > Len(f) THEN <<>> ELSE preorder(nd, f[i]) \o forestOrder(nd, f, i + 1)
RECURSIVE heapsOrder(_, _)
heapsOrder(m, h) ==
    IF h > NumHeaps THEN <<>>
    ELSE forestOrder(m.node, m.forest[h], 1) \o heapsOrder(m, h + 1)
Renamed(m) ==
    LET seq == heapsOrder(m, 1)
        k == Len(seq)
        lost == Cardinality(m.live \ {seq[i] : i \in 1..k})
        to(p) == IF p = NULL THEN NULL ELSE CHOOSE i \in 1..k : seq[i] = p
    IN [m EXCEPT
          !.node = [n \in NodeIds |->
                      IF n <= k
                      THEN [data |-> m.node[seq[n]].data,
                            leftChild |-> to(m.node[seq[n]].leftChild),
                            nextSibling |-> to(m.node[seq[n]].nextSibling),
                            order |-> m.node[seq[n]].order]
                      ELSE Blank],
          !.live = 1..(k + lost),
          !.forest = [v \in DOMAIN m.forest |->
                        [i \in 1..Len(m.forest[v]) |-> to(m.forest[v][i])]]]

\* a call may begin: no call is running, and the program is followed for at
\* most MaxAfter calls once a store went past the end of a vector
CanCall == pc.kind = "idle" /\ after <= MaxAfter
Called == after' = IF after = 0 THEN 0 ELSE after + 1

\* the call returned with machine state m
Return(m, rec, cont) ==
    /\ Commit(Renamed(m))
    /\ pc' = Idle
    /\ last' = rec
    /\ contents' = cont
    /\ Called
    /\ UNCHANGED exists

\* the call threw std::underflow_error before changing anything
Throw(rec) ==
    /\ last' = rec
    /\ Called
    /\ UNCHANGED <<node, live, forest, mSize, exists, pc, contents>>

\* the process was killed inside the call
Crash(rec) ==
    /\ pc' = Crashed
    /\ last' = rec
    /\ Called
    /\ UNCHANGED <<node, live, forest, mSize, exists, contents>>

Init ==
    /\ node = [n \in NodeIds |-> Blank]
    /\ live = {}
    /\ forest = [h \in Heaps |-> <<>>]
    /\ mSize = [h \in Heaps |-> 0]
    /\ exists = Heaps
    /\ pc = Idle
    /\ last = Ret("none", 0, 0, FALSE, 0)
    /\ contents = [h \in Heaps |-> EmptyBag]
    /\ after = 0

\* the body of insert(x): a new one-node tree goes through insertTree
insert(m, h, x) == insertTree(Alloc(m, BinomialTreeNode(x)), h, NewId(m))

\* h.insert(v)
Insert(h, v) ==
    /\ CanCall /\ h \in exists
    /\ live /= NodeIds /\ mSize[h] < MaxSize
    /\ Return(insert(Mach, h, v), Ret("insert", h, 0, FALSE, v),
              [contents EXCEPT ![h] = BagAdd(@, v)])

\* getMin that removes the root it reports
GetMinRemoving(h) ==
    /\ CanCall /\ h \in exists
    /\ IF isEmpty(Mach, h)
       THEN Throw(Ret("getMin", h, 0, TRUE, 0))
       ELSE /\ minNodeIndex(Mach, h) >= 0
            /\ Return(deleteMinBody(Mach, h), Ret("getMin", h, 0, FALSE,
                      node[forest[h][minNodeIndex(Mach, h) + 1]].data), contents)

\* h.getMin() when it throws or finds a root
GetMin(h) ==
    /\ CanCall /\ h \in exists
    /\ IF isEmpty(Mach, h)
       THEN Throw(Ret("getMin", h, 0, TRUE, 0))
       ELSE /\ minNodeIndex(Mach, h) >= 0
            /\ Return(Mach, Ret("getMin", h, 0, FALSE,
                      node[forest[h][minNodeIndex(Mach, h) + 1]].data), contents)

\* h.getMin() when mSize is not 0 and minNodeIndex() returns -1: forest[-1]
\* is read and dereferenced.  The process is killed, or some value comes back.
GetMinNoRoot(h) ==
    /\ CanCall /\ h \in exists
    /\ ~isEmpty(Mach, h) /\ minNodeIndex(Mach, h) = -1
    /\ \/ Crash(Ret("getMin", h, 0, FALSE, 0))
       \/ \E g \in Values : Return(Mach, Ret("getMin", h, 0, FALSE, g), contents)

\* deleteMin that takes one off mSize before it tests for the empty heap
DeleteMinLateThrow(h) ==
    /\ CanCall /\ h \in exists
    /\ IF mSize[h] = 0
       THEN /\ last' = Ret("deleteMin", h, 0, TRUE, 0)
            /\ mSize' = [mSize EXCEPT ![h] = @ - 1]
            /\ Called
            /\ UNCHANGED <<node, live, forest, exists, pc, contents>>
       ELSE /\ minNodeIndex(Mach, h) >= 0
            /\ LET removed == node[forest[h][minNodeIndex(Mach, h) + 1]].data
               IN Return(deleteMinBody(Mach, h), Ret("deleteMin", h, 0, FALSE, 0),
                         [contents EXCEPT ![h] = BagRemove(@, removed)])

\* h.deleteMin() when it throws or finds a root
DeleteMin(h) ==
    /\ CanCall /\ h \in exists
    /\ IF mSize[h] = 0
       THEN Throw(Ret("deleteMin", h, 0, TRUE, 0))
       ELSE /\ minNodeIndex(Mach, h) >= 0
            /\ LET removed == node[forest[h][minNodeIndex(Mach, h) + 1]].data
               IN Return(deleteMinBody(Mach, h), Ret("deleteMin", h, 0, FALSE, 0),
                         [contents EXCEPT ![h] = BagRemove(@, removed)])

\* h.deleteMin() when mSize is not 0 and minNodeIndex() returns -1: the
\* pointer forest[-1] is read, written through and deleted.  The process is
\* killed, or the call comes back with the heap's fields as they were.
DeleteMinNoRoot(h) ==
    /\ CanCall /\ h \in exists
    /\ mSize[h] /= 0 /\ minNodeIndex(Mach, h) = -1
    /\ \/ Crash(Ret("deleteMin", h, 0, FALSE, 0))
       \/ Return(Mach, Ret("deleteMin", h, 0, FALSE, 0), contents)

\* h.extractMin() when it throws or finds a root
ExtractMin(h) ==
    /\ CanCall /\ h \in exists
    /\ IF isEmpty(Mach, h)
       THEN Throw(Ret("extractMin", h, 0, TRUE, 0))
       ELSE /\ minNodeIndex(Mach, h) >= 0
            /\ LET minValue == node[forest[h][minNodeIndex(Mach, h) + 1]].data
               IN Return(deleteMinBody(Mach, h),
                         Ret("extractMin", h, 0, FALSE, minValue),
                         [contents EXCEPT ![h] = BagRemove(@, minValue)])

\* h.extractMin() when mSize is not 0 and minNodeIndex() returns -1
ExtractMinNoRoot(h) ==
    /\ CanCall /\ h \in exists
    /\ ~isEmpty(Mach, h) /\ minNodeIndex(Mach, h) = -1
    /\ \/ Crash(Ret("extractMin", h, 0, FALSE, 0))
       \/ \E g \in Values : Return(Mach, Ret("extractMin", h, 0, FALSE, g), contents)

\* h.merge(o) with o another heap object: mergeForest(o.forest) runs to the
\* end of o.forest.  When an insertTree on the way stores past the end of
\* the receiver's vector, the process is killed, or the stores hit memory the
\* vector does not read again and the call returns.
Merge(h, o) ==
    /\ CanCall /\ h \in exists /\ o \in exists /\ h /= o
    /\ LET m == mergeForestFrom(Mach, h, o, 0)
           cont == [contents EXCEPT ![h] = BagUnion(contents[h], contents[o]),
                                    ![o] = EmptyBag]
       IN /\ m.mSize[h] <= MaxSize /\ BagCard(cont[h]) <= MaxSize
          /\ ~m.oob
          /\ Return(m, Ret("merge", h, o, FALSE, 0), cont)

MergePastEnd(h, o) ==
    /\ CanCall /\ h \in exists /\ o \in exists /\ h /= o
    /\ LET m == mergeForestFrom(Mach, h, o, 0)
           cont == [contents EXCEPT ![h] = BagUnion(contents[h], contents[o]),
                                    ![o] = EmptyBag]
       IN /\ m.mSize[h] <= MaxSize /\ BagCard(cont[h]) <= MaxSize
          /\ m.oob
          /\ \/ Crash(Ret("merge", h, o, FALSE, 0))
             \/ /\ Commit(Renamed(m))
                /\ pc' = Idle
                /\ last' = Ret("merge", h, o, FALSE, 0)
                /\ contents' = cont
                /\ after' = after + 1
                /\ UNCHANGED exists

\* h.merge(h): otherForest is the receiver's own vector, so the loop of
\* mergeForest reads a vector that insertTree changes; it is taken one
\* iteration at a time.  The call enters mergeForest with order = 0.
MergeSelf(h) ==
    /\ CanCall /\ h \in exists
    /\ pc' = InMerge(h, h, 0)
    /\ last' = Ret("merge", h, h, FALSE, 0)
    /\ Called
    /\ UNCHANGED <<node, live, forest, mSize, exists, contents>>

\* one iteration of the loop of mergeForest
MergeForestStep ==
    /\ pc.kind = "merge" /\ pc.order < Len(forest[pc.other])
    /\ LET m == mergeForestIter(Mach, pc.this, pc.other, pc.order)
       IN /\ Len(m.forest[pc.this]) <= MaxForest
          /\ Commit(m)
          /\ pc' = InMerge(pc.this, pc.other, pc.order + 1)
          /\ UNCHANGED <<exists, last, contents, after>>

\* the loop of mergeForest exits and merge returns
MergeReturn ==
    /\ pc.kind = "merge" /\ pc.order >= Len(forest[pc.other])
    /\ pc' = Idle
    /\ UNCHANGED <<node, live, forest, mSize, exists, last, contents, after>>

\* BinomialMinHeap d(s)
CopyConstruct(d, s) ==
    /\ CanCall /\ d \notin exists /\ s \in exists
    /\ forestNodeCount(node, forest[s], 1) <= Cardinality(NodeIds \ live)
    /\ LET m1 == cloneForestFrom(Mach, d, s, 1)
           m2 == [m1 EXCEPT !.mSize[d] = m1.mSize[s]]
       IN /\ Commit(Renamed(m2))
          /\ pc' = Idle
          /\ last' = Ret("copyConstruct", d, s, FALSE, 0)
          /\ contents' = [contents EXCEPT ![d] = contents[s]]
          /\ exists' = exists \cup {d}
          /\ Called

\* BinomialMinHeap d(std::move(s))
MoveConstruct(d, s) ==
    /\ CanCall /\ d \notin exists /\ s \in exists
    /\ LET m1 == [Mach EXCEPT !.forest[d] = Mach.forest[s], !.mSize[d] = Mach.mSize[s]]
           m2 == [m1 EXCEPT !.forest[s] = <<>>, !.mSize[s] = 0]
       IN /\ Commit(Renamed(m2))
          /\ pc' = Idle
          /\ last' = Ret("moveConstruct", d, s, FALSE, 0)
          /\ contents' = [contents EXCEPT ![d] = contents[s], ![s] = EmptyBag]
          /\ exists' = exists \cup {d}
          /\ Called

\* copy assignment that does not call clearForest(forest) first
copyAssignNoClear(m, d, s) ==
    IF d /= s
    THEN LET m2 == cloneForestFrom(m, d, s, 1)
         IN [m2 EXCEPT !.mSize[d] = m2.mSize[s]]
    ELSE m

\* operator=(const BinomialMinHeap& other) on heap d with other = s
copyAssign(m, d, s) ==
    IF d /= s
    THEN LET m1 == clearForest(m, d)
             m2 == cloneForestFrom(m1, d, s, 1)
         IN [m2 EXCEPT !.mSize[d] = m2.mSize[s]]
    ELSE m

\* operator=(BinomialMinHeap&& other) on heap d with other = s; the
\* moved-from vector s.forest is left empty
moveAssign(m, d, s) ==
    IF d /= s
    THEN LET m1 == clearForest(m, d)
             m2 == [m1 EXCEPT !.forest[d] = m1.forest[s], !.mSize[d] = m1.mSize[s]]
         IN [m2 EXCEPT !.forest[s] = <<>>, !.mSize[s] = 0]
    ELSE m

\* d = s
CopyAssign(d, s) ==
    /\ CanCall /\ d \in exists /\ s \in exists
    /\ d /= s => forestNodeCount(node, forest[s], 1)
                   <= Cardinality(NodeIds \ clearForest(Mach, d).live)
    /\ Return(copyAssign(Mach, d, s), Ret("copyAssign", d, s, FALSE, 0),
              [contents EXCEPT ![d] = contents[s]])

\* move assignment that forgets other.mSize = 0
MoveAssignKeepSize(d, s) ==
    /\ CanCall /\ d \in exists /\ s \in exists
    /\ LET m1 == clearForest(Mach, d)
           m2 == [m1 EXCEPT !.forest[d] = m1.forest[s], !.mSize[d] = m1.mSize[s]]
           m3 == [m2 EXCEPT !.forest[s] = <<>>]
       IN Return(IF d /= s THEN m3 ELSE Mach, Ret("moveAssign", d, s, FALSE, 0),
                 IF d /= s THEN [contents EXCEPT ![d] = contents[s], ![s] = EmptyBag]
                 ELSE contents)

\* d = std::move(s)
MoveAssign(d, s) ==
    /\ CanCall /\ d \in exists /\ s \in exists
    /\ Return(moveAssign(Mach, d, s), Ret("moveAssign", d, s, FALSE, 0),
              IF d /= s THEN [contents EXCEPT ![d] = contents[s], ![s] = EmptyBag]
              ELSE contents)

\* BinomialMinHeap h;
Construct(h) ==
    /\ CanCall /\ h \notin exists
    /\ exists' = exists \cup {h}
    /\ last' = Ret("construct", h, 0, FALSE, 0)
    /\ Called
    /\ UNCHANGED <<node, live, forest, mSize, pc, contents>>

\* ~BinomialMinHeap() of h; the storage of a dead object reads as an empty heap
Destroy(h) ==
    /\ CanCall /\ h \in exists
    /\ Commit(Renamed([clearForest(Mach, h) EXCEPT !.mSize[h] = 0]))
    /\ exists' = exists \ {h}
    /\ pc' = Idle
    /\ last' = Ret("destroy", h, 0, FALSE, 0)
    /\ contents' = [contents EXCEPT ![h] = EmptyBag]
    /\ Called

Next ==
    \/ \E h \in Heaps, v \in Values : Insert(h, v)
    \/ \E h \in Heaps : GetMin(h)
    \/ \E h \in Heaps : GetMinNoRoot(h)
    \/ \E h \in Heaps : DeleteMin(h)
    \/ \E h \in Heaps : DeleteMinNoRoot(h)
    \/ \E h \in Heaps : ExtractMin(h)
    \/ \E h \in Heaps : ExtractMinNoRoot(h)
    \/ \E h \in Heaps, o \in Heaps : Merge(h, o)
    \/ \E h \in Heaps, o \in Heaps : MergePastEnd(h, o)
    \/ \E h \in Heaps : MergeSelf(h)
    \/ MergeForestStep
    \/ MergeReturn
    \/ \E d \in Heaps, s \in Heaps : CopyConstruct(d, s)
    \/ \E d \in Heaps, s \in Heaps : MoveConstruct(d, s)
    \/ \E d \in Heaps, s \in Heaps : CopyAssign(d, s)
    \/ \E d \in Heaps, s \in Heaps : MoveAssign(d, s)
    \/ \E h \in Heaps : Construct(h)
    \/ \E h \in Heaps : Destroy(h)

Spec == Init /\ [][Next]_vars

\* h.size()
Size(h) ==
    /\ CanCall /\ h \in exists
    /\ Return(Mach, Ret("size", h, 0, FALSE, size(Mach, h)), contents)

\* h.isEmpty(); the bool comes back as 1 or 0
IsEmpty(h) ==
    /\ CanCall /\ h \in exists
    /\ Return(Mach, Ret("isEmpty", h, 0, FALSE, IF isEmpty(Mach, h) THEN 1 ELSE 0),
              contents)

\* the program that also asks its heaps for size() and isEmpty()
NextQueries ==
    \/ Next
    \/ \E h \in Heaps : Size(h)
    \/ \E h \in Heaps : IsEmpty(h)

SpecQueries == Init /\ [][NextQueries]_vars

\* the program that only inserts into its heaps and reads or removes minima
NextInsertRemove ==
    \/ \E h \in Heaps, v \in Values : Insert(h, v)
    \/ \E h \in Heaps : GetMin(h)
    \/ \E h \in Heaps : DeleteMin(h)
    \/ \E h \in Heaps : ExtractMin(h)

SpecInsertRemove == Init /\ [][NextInsertRemove]_vars

\* ---- properties -------------------------------------------------------------

\* the values a client gets that calls h.extractMin() until h.isEmpty();
\* <<-1>> ends the list when a call finds no root although mSize is not 0
RECURSIVE drain(_, _)
drain(m, h) ==
    IF isEmpty(m, h) THEN <<>>
    ELSE IF minNodeIndex(m, h) < 0 THEN <<-1>>
    ELSE <<m.node[m.forest[h][minNodeIndex(m, h) + 1]].data>>
             \o drain(deleteMinBody(m, h), h)

\* the sum of 2^i over the occupied slots i of forest[h]
RECURSIVE slotSum(_, _)
slotSum(f, i) ==
    IF i > Len(f) THEN 0
    ELSE (IF f[i] /= NULL THEN pow2(i - 1) ELSE 0) + slotSum(f, i + 1)

RemovalOps == {"getMin", "deleteMin", "extractMin"}
Holds(h) == BagCard(contents[h]) > 0

\* C1: a getMin() call on a heap that holds at least one value returns the
\* minimum of the values put into the heap (by insert or by merge) and not
\* removed since.
C1_GetMinIsMinimum ==
    (last.op = "getMin" /\ Holds(last.h))
        => /\ pc.kind = "idle"
           /\ ~last.raised
           /\ last.ret = BagMin(contents[last.h])

\* C2: in a program that only inserts and removes, extractMin() until the
\* heap is empty returns the values the heap holds, each as often as it is
\* held, in non-decreasing order; and a returned value is no larger than any
\* value left behind.
C2_ExtractSorted ==
    /\ \A h \in Heaps : drain(Mach, h) = BagSorted(contents[h])
    /\ (last.op = "extractMin" /\ ~last.raised)
          => \A v \in Values : contents[last.h][v] > 0 => last.ret <= v

C2_Witness ==
    /\ last.op = "extractMin" /\ ~last.raised /\ last.ret = 1
    /\ contents[last.h][1] >= 1 /\ contents[last.h][2] >= 1

\* C3: a.merge(b) with b another heap completes, leaves a with size n + m and
\* repeated extractMin() on a returns the sorted merge of both multisets.
C3_MergeCorrect ==
    (last.op = "merge" /\ last.h /= last.other)
        => /\ pc.kind = "idle"
           /\ mSize[last.h] = BagCard(contents[last.h])
           /\ drain(Mach, last.h) = BagSorted(contents[last.h])

\* C4: after a.merge(b) with b another heap, b.size() is 0 and b.isEmpty().
C4_ArgumentEmptied ==
    (last.op = "merge" /\ last.h /= last.other /\ pc.kind = "idle")
        => size(Mach, last.other) = 0 /\ isEmpty(Mach, last.other)

\* C5: between calls, every occupied slot i of every heap holds a root of
\* order i, and no root sits in two slots.
C5_ForestInvariant ==
    pc.kind = "idle" =>
        \A h \in exists :
            \A i \in 1..Len(forest[h]) :
                forest[h][i] /= NULL =>
                    /\ node[forest[h][i]].order = i - 1
                    /\ \A j \in 1..Len(forest[h]) : forest[h][j] = forest[h][i] => j = i

C5_Witness ==
    /\ pc.kind = "idle" /\ last.op = "merge"
    /\ Len(forest[last.h]) = 3 /\ forest[last.h][3] /= NULL
    /\ forest[last.h][1] = NULL /\ forest[last.h][2] = NULL

\* C6: between calls, mSize of every heap object is the sum of 2^i over its
\* occupied slots i.
C6_SizeInvariant ==
    pc.kind = "idle" => \A h \in exists : mSize[h] = slotSum(forest[h], 1)

\* C7: in a program that only inserts and removes, size() is the number of
\* inserts minus the number of successful removals, and isEmpty() holds
\* exactly when the two are equal.
C7_SizeAccounting ==
    \A h \in Heaps :
        /\ size(Mach, h) = BagCard(contents[h])
        /\ isEmpty(Mach, h) <=> BagCard(contents[h]) = 0

C7_Witness ==
    /\ last.op = "deleteMin" /\ ~last.raised
    /\ BagCard(contents[last.h]) = 3

\* C8: getMin, deleteMin and extractMin called on a heap that holds no value
\* throw.
C8_EmptyHeapThrows ==
    [][\A h \in Heaps :
          (pc.kind = "idle" /\ h \in exists /\ ~Holds(h)
             /\ last'.op \in RemovalOps /\ last'.h = h)
          => (last'.raised /\ pc'.kind = "idle")]_vars

\* C9: a.merge(a) changes neither a's size nor its forest nor any node, and
\* makes no node its own child.
C9_SelfMergeNoOp ==
    [][(pc.kind = "merge" /\ pc.this = pc.other)
          => /\ forest' = forest /\ mSize' = mSize /\ node' = node
             /\ \A n \in NodeIds : node'[n].leftChild /= n]_vars

\* C10: every call terminates; the loop of mergeForest reaches its exit
\* because each iteration brings order closer to otherForest.size().
C10_MergeForestLoopExits ==
    [][(pc.kind = "merge" /\ pc'.kind = "merge")
          => Len(forest'[pc'.other]) - pc'.order < Len(forest[pc.other]) - pc.order]_vars

\* ---- copies and moves ------------------------------------------------------
SeqLen == 2          \* longest sequence of calls applied to a copy

CopyOps == {"copyConstruct", "copyAssign"}

\* what a client sees of heap h: size(), getMin() (-2 when it throws, -1
\* when it finds no root) and the values extractMin() returns until isEmpty()
observed(m, h) ==
    <<size(m, h),
      IF isEmpty(m, h) THEN -2
      ELSE IF minNodeIndex(m, h) < 0 THEN -1
      ELSE m.node[m.forest[h][minNodeIndex(m, h) + 1]].data,
      drain(m, h)>>

\* the machine states one insert, deleteMin, extractMin or merge call on h
\* can return, for merges whose argument is neither h nor the heap keep
mutated(m, h, keep) ==
    {insert(m, h, v) : v \in {w \in Values : m.live /= NodeIds /\ m.mSize[h] < MaxSize}}
    \cup {deleteMinBody(m, h) : x \in {w \in {h} : m.mSize[h] /= 0 /\ minNodeIndex(m, h) >= 0}}
    \cup {mergeForestFrom(m, h, o, 0) : o \in exists \ {h, keep}}

\* the machine states up to n such calls on h can lead to
RECURSIVE mutatedBy(_, _, _, _)
mutatedBy(m, h, keep, n) ==
    IF n = 0 \/ m.oob THEN {m}
    ELSE {m} \cup UNION {mutatedBy(x, h, keep, n - 1) : x \in mutated(m, h, keep)}

MoveOps == {"moveConstruct", "moveAssign"}

\* the machine state after the step
MachNext ==
    [node |-> node', live |-> live', forest |-> forest' @@ (TMP :> <<>>),
     mSize |-> mSize', oob |-> FALSE]

\* a tree as values: data, order, first child, next sibling
RECURSIVE shape(_, _)
shape(nd, t) ==
    IF t = NULL THEN <<>>
    ELSE <<nd[t].data, nd[t].order,
           shape(nd, nd[t].leftChild), shape(nd, nd[t].nextSibling)>>
forestShape(m, h) ==
    [i \in 1..Len(m.forest[h]) |-> shape(m.node, m.forest[h][i])]

\* the nodes of heap h
nodesOf(m, h) ==
    LET seq == forestOrder(m.node, m.forest[h], 1) IN {seq[i] : i \in 1..Len(seq)}

\* C12: a move construction or move assignment from heap s into another heap
\* d gives d the trees, values and size s had, and leaves s with size 0, no
\* forest slot and no node of d, so that s.getMin() throws and an insert of
\* v into s gives a heap of size 1 that holds v alone.
C12_MoveTransfers ==
    [][(last'.op \in MoveOps /\ last'.h /= last'.other) =>
          LET d == last'.h
              s == last'.other
          IN /\ forestShape(MachNext, d) = forestShape(Mach, s)
             /\ observed(MachNext, d) = observed(Mach, s)
             /\ contents'[d] = contents[s]
             /\ mSize'[s] = 0 /\ forest'[s] = <<>>
             /\ nodesOf(MachNext, s) \cap nodesOf(MachNext, d) = {}
             /\ observed(MachNext, s) = <<0, -2, <<>> >>
             /\ \A v \in Values :
                   live' /= NodeIds =>
                       observed(insert(MachNext, s, v), s) = <<1, v, <<v>> >>]_vars

C12_Witness ==
    /\ last.op = "moveConstruct" /\ last.h /= last.other
    /\ mSize[last.h] = 2 /\ BagCard(contents[last.h]) = 2
    /\ Len(forest[last.h]) = 2 /\ forest[last.h][2] /= NULL
    /\ mSize[last.other] = 0 /\ forest[last.other] = <<>>

\* h.insert(vs[1]); ...; h.insert(vs[Len(vs)])
RECURSIVE insertAll(_, _, _)
insertAll(m, h, vs) ==
    IF vs = <<>> THEN m ELSE insertAll(insert(m, h, Head(vs)), h, Tail(vs))

RECURSIVE BagOf(_)
BagOf(vs) == IF vs = <<>> THEN EmptyBag ELSE BagAdd(BagOf(Tail(vs)), Head(vs))

\* the sequences of 1 to n values
ValueSeqs(n) == UNION {[1..k -> Values] : k \in 1..n}

\* C13: after a.merge(b) with b another heap, b is like a freshly
\* constructed heap: inserting k values into b gives b.size() = k, and
\* getMin() and the extraction sequence of b are those of the inserted values.
C13_ArgumentLikeFresh ==
    (last.op = "merge" /\ last.h /= last.other /\ pc.kind = "idle") =>
        \A vs \in ValueSeqs(SeqLen) :
            Len(vs) <= Cardinality(NodeIds \ live) =>
                observed(insertAll(Mach, last.other, vs), last.other)
                    = <<Len(vs), BagMin(BagOf(vs)), BagSorted(BagOf(vs))>>

\* the bag of the values in the nodes of heap h
storedBag(m, h) ==
    [v \in Values |-> Cardinality({n \in nodesOf(m, h) : m.node[n].data = v})]

\* C14: on a heap that holds a value, extractMin() returns what getMin()
\* would have returned just before, and deleteMin() and extractMin() take one
\* copy of the minimum out of the stored values and free exactly one node.
C14_RemovesOneMinimum ==
    [][\A h \in Heaps :
          (pc.kind = "idle" /\ h \in exists /\ Holds(h)
             /\ last'.op \in {"deleteMin", "extractMin"} /\ last'.h = h)
          => /\ pc'.kind = "idle" /\ ~last'.raised
             /\ minNodeIndex(Mach, h) >= 0
             /\ last'.op = "extractMin" => last'.ret = observed(Mach, h)[2]
             /\ storedBag(MachNext, h) = BagRemove(storedBag(Mach, h), observed(Mach, h)[2])
             /\ contents'[h] = BagRemove(contents[h], BagMin(contents[h]))
             /\ Cardinality(live') = Cardinality(live) - 1]_vars

QueryOps == {"getMin", "size", "isEmpty"}

\* C15: a getMin(), size() or isEmpty() call, whatever it returns, leaves
\* every forest slot, every node (value, order, links) and every mSize as it
\* was; size() returns mSize, isEmpty() tells whether it is 0, and a getMin()
\* that follows a getMin() on the same heap throws again or returns the same
\* root value.
C15_QueriesArePure ==
    [][(pc.kind = "idle" /\ last'.op \in QueryOps) =>
          /\ forest' = forest /\ node' = node /\ live' = live /\ mSize' = mSize
          /\ \A h \in Heaps : forestShape(MachNext, h) = forestShape(Mach, h)
          /\ last'.op = "size" => last'.ret = mSize[last'.h]
          /\ last'.op = "isEmpty" => (last'.ret = 1 <=> mSize[last'.h] = 0)
          /\ (last'.op = "getMin" /\ last.op = "getMin" /\ last'.h = last.h
                /\ (isEmpty(Mach, last.h) \/ minNodeIndex(Mach, last.h) >= 0))
             => (last'.raised = last.raised /\ last'.ret = last.ret)]_vars

C15_Witness ==
    /\ pc.kind = "idle" /\ last.op = "getMin" /\ ~last.raised /\ last.ret = 1
    /\ mSize[last.h] = 3 /\ Len(forest[last.h]) = 2
    /\ forest[last.h][1] /= NULL /\ forest[last.h][2] /= NULL
    /\ node[forest[last.h][1]].data = 2

\* the children of a node: the chain from its leftChild along nextSibling
RECURSIVE chain(_, _)
chain(nd, c) == IF c = NULL THEN <<>> ELSE <<c>> \o chain(nd, nd[c].nextSibling)
children(nd, n) == chain(nd, nd[n].leftChild)

\* C16: whenever no merge is running, no node of any heap holds a value
\* larger than the value of one of its children.
C16_HeapOrder ==
    pc.kind /= "merge" =>
        \A h \in Heaps : \A n \in nodesOf(Mach, h) :
            \A i \in 1..Len(children(node, n)) :
                node[n].data <= node[children(node, n)[i]].data

C16_Witness ==
    /\ pc.kind = "idle" /\ last.op = "deleteMin"
    /\ Len(forest[last.h]) = 3 /\ forest[last.h][1] /= NULL /\ forest[last.h][2] /= NULL
    /\ node[forest[last.h][2]].data = 1
    /\ node[node[forest[last.h][2]].leftChild].data = 2

\* C17: no insert, merge or deleteMin call that can begin makes insertTree
\* store a tree at an index greater than the length of the receiver's
\* vector (nor makes deleteMin index a vector out of range).
C17_StoreWithinVector ==
    pc.kind = "idle" =>
        \A h \in exists :
            /\ \A v \in Values : live /= NodeIds => ~insert(Mach, h, v).oob
            /\ (mSize[h] /= 0 /\ minNodeIndex(Mach, h) >= 0) => ~deleteMinBody(Mach, h).oob
            /\ \A o \in exists \ {h} : ~mergeForestFrom(Mach, h, o, 0).oob

\* ---- insertTree and combineTrees as functions ------------------------------

\* the lowest index at or above k that is an empty slot of f or past its end
RECURSIVE firstFree(_, _)
firstFree(f, k) ==
    IF k < Len(f) /\ f[k + 1] /= NULL THEN firstFree(f, k + 1) ELSE k

\* the first n iterations of the loop of mergeForest
RECURSIVE mergeForestUpTo(_, _, _, _)
mergeForestUpTo(m, h, other, n) ==
    IF n = 0 THEN m
    ELSE mergeForestIter(mergeForestUpTo(m, h, other, n - 1), h, other, n - 1)

\* the machine states in which insertTree(t) is entered on heap h by a call
\* that can begin now, as pairs <<m, t>>: from insert, from the loop of
\* merge, and from the loop that deleteMin runs over deletedRootChildren
insertTreeEntries(h) ==
    {<<Alloc(Mach, BinomialTreeNode(v)), NewId(Mach)>> :
        v \in {w \in Values : live /= NodeIds}}
    \cup UNION {{<<mergeForestUpTo(Mach, h, o, n),
                   mergeForestUpTo(Mach, h, o, n).forest[o][n + 1]>> :
                      n \in {i \in 0..(Len(forest[o]) - 1) :
                                ~mergeForestUpTo(Mach, h, o, i).oob}}
               : o \in exists \ {h}}
    \cup {<<mergeForestUpTo(deleteMinDetached(Mach, h), h, TMP, n),
            mergeForestUpTo(deleteMinDetached(Mach, h), h, TMP, n).forest[TMP][n + 1]>> :
              n \in {i \in 0..MaxForest :
                        /\ mSize[h] /= 0 /\ minNodeIndex(Mach, h) >= 0
                        /\ i < Len(deleteMinDetached(Mach, h).forest[TMP])}}

\* insertTree(t) on heap h in machine state m is a binary increment with
\* carry from slot k = t->order up to the first free slot j
carries(m, h, t) ==
    LET k == m.node[t].order
        f == m.forest[h]
        j == firstFree(f, k)
        r == insertTree(m, h, t)
        g == r.forest[h]
    IN /\ ~r.oob
       /\ insertTreeLoop(m, h, t, k).treeOrder - k = j - k
       /\ Len(g) = (IF j < Len(f) THEN Len(f) ELSE j + 1)
       /\ \A i \in 0..(Len(g) - 1) :
             IF i >= k /\ i < j THEN g[i + 1] = NULL
             ELSE IF i = j THEN g[i + 1] /= NULL /\ r.node[g[i + 1]].order = j
             ELSE g[i + 1] = f[i + 1]
       /\ r.mSize[h] = m.mSize[h] + pow2(k)

\* C18: every insertTree call does j - k combineTrees steps, empties slots
\* k..j-1, puts a tree of order j into slot j and leaves the other slots
\* as they were, where k is the order of the incoming tree and j the first
\* empty or missing slot at or above k.
C18_InsertTreeCarries ==
    pc.kind = "idle" =>
        \A h \in exists : \A e \in insertTreeEntries(h) :
            e[2] /= NULL => carries(e[1], h, e[2])

\* the combineTrees calls of insertTree(treeNode) on heap h, as triples
\* <<nodes, first, second>>, from slot treeOrder on
RECURSIVE combineCalls(_, _, _, _)
combineCalls(m, h, treeNode, treeOrder) ==
    IF treeOrder < Len(m.forest[h]) /\ m.forest[h][treeOrder + 1] /= NULL
    THEN LET c == combineTrees(m.node, m.forest[h][treeOrder + 1], treeNode)
             m1 == [m EXCEPT !.node = c.node,
                             !.forest[h][treeOrder + 1] = NULL]
         IN {<<m.node, m.forest[h][treeOrder + 1], treeNode>>}
               \cup combineCalls(m1, h, c.root, treeOrder + 1)
    ELSE {}

\* the combineTrees calls of two different trees of one order that a call
\* which can begin now makes
combineTreesEntries ==
    UNION {UNION {{c \in combineCalls(e[1], h, e[2], e[1].node[e[2]].order) :
                      /\ c[2] /= c[3]
                      /\ c[1][c[2]].order = c[1][c[3]].order}
                  : e \in {x \in insertTreeEntries(h) : x[2] /= NULL}}
           : h \in exists}

\* C19: combineTrees(first, second) on two different trees of order k
\* returns the root with the smaller value, first when the values are equal,
\* with order k + 1; the other root becomes its leftChild and gets the
\* root's former leftChild as nextSibling; no other field of any node changes.
C19_CombineTrees ==
    pc.kind = "idle" =>
        \A c \in combineTreesEntries :
            LET nd == c[1]
                first == c[2]
                second == c[3]
                root == IF nd[first].data <= nd[second].data THEN first ELSE second
                loser == IF root = first THEN second ELSE first
                r == combineTrees(nd, first, second)
            IN /\ r.root = root
               /\ r.node[root].order = nd[first].order + 1
               /\ r.node[root].leftChild = loser
               /\ r.node[loser].nextSibling = nd[root].leftChild
               /\ r.node = [nd EXCEPT ![loser].nextSibling = nd[root].leftChild,
                                      ![root].leftChild = loser,
                                      ![root].order = nd[first].order + 1]

C19_Witness ==
    /\ pc.kind = "idle"
    /\ \E c \in combineTreesEntries :
          c[1][c[2]].order = 1 /\ c[1][c[2]].data = c[1][c[3]].data
    /\ \E c \in combineTreesEntries :
          c[1][c[2]].order = 1 /\ c[1][c[2]].data > c[1][c[3]].data

\* ---- the shape of the trees ------------------------------------------------

\* the nextSibling chain from c, followed for at most n nodes
RECURSIVE chainUpTo(_, _, _)
chainUpTo(nd, c, n) ==
    IF c = NULL \/ n = 0 THEN <<>>
    ELSE <<c>> \o chainUpTo(nd, nd[c].nextSibling, n - 1)

\* the nodes met from the set s along leftChild and nextSibling in n rounds
RECURSIVE closure(_, _, _)
closure(nd, s, n) ==
    IF n = 0 THEN s
    ELSE closure(nd, s \cup ({nd[x].leftChild : x \in s} \ {NULL})
                       \cup ({nd[x].nextSibling : x \in s} \ {NULL}), n - 1)

\* the nodes of the tree with root t
treeNodes(nd, t) ==
    {t} \cup (IF nd[t].leftChild = NULL THEN {}
              ELSE closure(nd, {nd[t].leftChild}, MaxNodes))

\* C20: in every state, every node has as many children as its order says,
\* the children of a node of order k have the orders 0..k-1, each once, and
\* the tree in an occupied slot has 2^k nodes for a root of order k.
C20_BinomialShape ==
    /\ \A n \in live :
          LET ch == chainUpTo(node, node[n].leftChild, MaxNodes + 1)
          IN /\ Len(ch) = node[n].order
             /\ {node[ch[i]].order : i \in 1..Len(ch)} = 0..(node[n].order - 1)
    /\ \A h \in Heaps : \A i \in 1..Len(forest[h]) :
          forest[h][i] /= NULL =>
              Cardinality(treeNodes(node, forest[h][i])) = pow2(node[forest[h][i]].order)

\* ---- ownership ---------------------------------------------------------------

\* the links that point at node n: forest slots, leftChild and nextSibling
\* fields of allocated nodes
linksTo(n) ==
    Cardinality({<<h, i>> \in Heaps \X (1..(MaxForest + 1)) :
                    i <= Len(forest[h]) /\ forest[h][i] = n})
    + Cardinality({p \in live : node[p].leftChild = n})
    + Cardinality({p \in live : node[p].nextSibling = n})

\* the occupied slots of all forests
roots == {forest[h][i] : <<h, i>> \in {x \in Heaps \X (1..(MaxForest + 1)) :
                                        x[2] <= Len(forest[x[1]])}} \ {NULL}

\* C21: in every state every allocated node is reached from the forest
\* slots, exactly one link (a slot, a leftChild or a nextSibling) points at
\* it, and no link reachable from a heap points at a freed node.
C21_ExclusiveOwnership ==
    /\ \A n \in live :
          /\ n \in closure(node, roots, MaxNodes)
          /\ linksTo(n) = 1
    /\ closure(node, roots, MaxNodes) \subseteq live

\* ---- mergeForest as a function ----------------------------------------------

\* mergeForest(forest[other]) on heap h from machine state m takes the
\* occupied slots of other in increasing order, each tree once, nulls every
\* slot of other, keeps its length and neither allocates nor frees
mergesEachOnce(m, h, other) ==
    LET f == m.forest[other]
        r == mergeForestFrom(m, h, other, 0)
    IN /\ \A n \in 0..(Len(f) - 1) :
             LET e == mergeForestUpTo(m, h, other, n)
             IN /\ Len(e.forest[other]) = Len(f)
                /\ \A i \in 0..(Len(f) - 1) :
                      e.forest[other][i + 1] = (IF i < n THEN NULL ELSE f[i + 1])
                /\ mergeForestUpTo(m, h, other, n + 1).mSize[h]
                      = e.mSize[h] + (IF f[n + 1] = NULL THEN 0
                                      ELSE pow2(m.node[f[n + 1]].order))
       /\ r.node = mergeForestUpTo(m, h, other, Len(f)).node
       /\ r.forest[h] = mergeForestUpTo(m, h, other, Len(f)).forest[h]
       /\ r.mSize[h] = mergeForestUpTo(m, h, other, Len(f)).mSize[h]
       /\ r.forest[other] = [i \in 1..Len(f) |-> NULL]
       /\ r.live = m.live

\* C22: a merge with another heap, and the mergeForest call of deleteMin
\* on its vector deletedRootChildren, hand each occupied slot of the other
\* vector to insertTree once, in increasing order, leave all its slots
\* empty and leave the set of allocated nodes as it was.
C22_MergeForestFrame ==
    pc.kind = "idle" =>
        \A h \in exists :
            /\ \A o \in exists \ {h} : mergesEachOnce(Mach, h, o)
            /\ (mSize[h] /= 0 /\ minNodeIndex(Mach, h) >= 0)
                  => mergesEachOnce(deleteMinDetached(Mach, h), h, TMP)

C22_Witness ==
    /\ pc.kind = "idle"
    /\ \E h \in exists : \E o \in exists \ {h} :
          /\ Len(forest[o]) = 2 /\ forest[o][1] /= NULL /\ forest[o][2] /= NULL
          /\ Len(forest[h]) = 1 /\ forest[h][1] /= NULL
          /\ LET r == mergeForestFrom(Mach, h, o, 0)
             IN /\ ~r.oob /\ Len(r.forest[h]) = 3 /\ r.forest[h][3] /= NULL
                /\ r.forest[o] = <<NULL, NULL>>

\* ---- the minimum root --------------------------------------------------------

\* the indices (from 0) of the occupied slots of heap h
occupied(h) == {i \in 0..(Len(forest[h]) - 1) : forest[h][i + 1] /= NULL}

\* C23: on a heap with at least one root, minNodeIndex() is the lowest
\* occupied slot among those whose root holds the least root value; getMin
\* and extractMin read that root, and deleteMin frees that root and empties
\* that slot.
C23_LowestMinimalSlot ==
    pc.kind = "idle" =>
        \A h \in exists :
            occupied(h) /= {} =>
                LET idx == minNodeIndex(Mach, h)
                    d == deleteMinDetached(Mach, h)
                IN /\ idx \in occupied(h)
                   /\ \A j \in occupied(h) :
                         /\ node[forest[h][idx + 1]].data <= node[forest[h][j + 1]].data
                         /\ node[forest[h][idx + 1]].data = node[forest[h][j + 1]].data
                               => idx <= j
                   /\ ~isEmpty(Mach, h)
                   /\ observed(Mach, h)[2] = node[forest[h][idx + 1]].data
                   /\ Head(drain(Mach, h)) = node[forest[h][idx + 1]].data
                   /\ live \ d.live = {forest[h][idx + 1]}
                   /\ d.forest[h][idx + 1] = NULL
                   /\ \A j \in occupied(h) \ {idx} : d.forest[h][j + 1] = forest[h][j + 1]

C23_Witness ==
    /\ pc.kind = "idle"
    /\ \E h \in exists :
          /\ Len(forest[h]) = 2
          /\ forest[h][1] /= NULL /\ forest[h][2] /= NULL
          /\ node[forest[h][1]].data = 1 /\ node[forest[h][2]].data = 1
          /\ minNodeIndex(Mach, h) = 0
          /\ deleteMinBody(Mach, h).forest[h][1] = NULL

\* ---- the temporary forest of deleteMin ---------------------------------------

\* C24: when deleteMin has detached the children of the root it removes, of
\* order k, the children have different orders within 0..k-1, each sits in
\* the slot of deletedRootChildren given by its order with a null
\* nextSibling, slots k and k+1 of that vector are null, no vector was
\* indexed out of range, and the slot the root came from is null.
C24_DetachedChildren ==
    pc.kind = "idle" =>
        \A h \in exists :
            (mSize[h] /= 0 /\ minNodeIndex(Mach, h) >= 0) =>
                LET idx == minNodeIndex(Mach, h)
                    minRoot == forest[h][idx + 1]
                    k == node[minRoot].order
                    ch == children(node, minRoot)
                    d == deleteMinDetached(Mach, h)
                    t == d.forest[TMP]
                IN /\ ~d.oob
                   /\ Len(t) = k + 2
                   /\ \A i \in 1..Len(ch) :
                         /\ node[ch[i]].order \in 0..(k - 1)
                         /\ \A j \in 1..Len(ch) :
                               node[ch[j]].order = node[ch[i]].order => j = i
                         /\ t[node[ch[i]].order + 1] = ch[i]
                         /\ d.node[ch[i]].nextSibling = NULL
                   /\ \A i \in 1..Len(t) :
                         t[i] /= NULL => \E j \in 1..Len(ch) : ch[j] = t[i]
                   /\ t[k + 1] = NULL /\ t[k + 2] = NULL
                   /\ d.forest[h][idx + 1] = NULL
                   /\ minRoot \notin d.live

C24_Witness ==
    /\ pc.kind = "idle"
    /\ \E h \in exists :
          /\ Len(forest[h]) = 3 /\ forest[h][3] /= NULL
          /\ LET t == deleteMinDetached(Mach, h).forest[TMP]
             IN /\ Len(t) = 4 /\ t[1] /= NULL /\ t[2] /= NULL
                /\ t[3] = NULL /\ t[4] = NULL

\* ---- copies ------------------------------------------------------------------

\* C25: a copy construction or copy assignment of heap s into another heap c
\* gives c a forest of the same length with the same slots occupied by trees
\* of the same shape, values and orders, and the same mSize, so that c and
\* s give the same getMin() and the same extractMin() sequence; s keeps
\* what it had.
C25_CopyEqualsSource ==
    [][(last'.op \in CopyOps /\ last'.h /= last'.other) =>
          LET c == last'.h
              s == last'.other
          IN /\ Len(forest'[c]) = Len(forest[s])
             /\ \A i \in 1..Len(forest[s]) :
                   (forest'[c][i] = NULL) <=> (forest[s][i] = NULL)
             /\ forestShape(MachNext, c) = forestShape(Mach, s)
             /\ forestShape(MachNext, s) = forestShape(Mach, s)
             /\ mSize'[c] = mSize[s] /\ mSize'[s] = mSize[s]
             /\ observed(MachNext, c) = observed(Mach, s)
             /\ observed(MachNext, c) = observed(MachNext, s)
             /\ nodesOf(MachNext, c) \cap nodesOf(MachNext, s) = {}]_vars

C25_Witness ==
    /\ pc.kind = "idle" /\ last.op = "copyAssign" /\ last.h /= last.other
    /\ mSize[last.h] = 2 /\ Len(forest[last.h]) = 2
    /\ forest[last.h][1] = NULL /\ forest[last.h][2] /= NULL
    /\ forestShape(Mach, last.h) = forestShape(Mach, last.other)
    /\ node[forest[last.h][2]].data = 1
    /\ node[node[forest[last.h][2]].leftChild].data = 2

\* ---- assignment --------------------------------------------------------------

\* d = s or d = std::move(s) ended in machine state r: from state m, d has
\* the values s had and s's mSize, and the nodes d had are freed
replaced(m, r, d, s) ==
    /\ storedBag(r, d) = storedBag(m, s)
    /\ forestShape(r, d) = forestShape(m, s)
    /\ r.mSize[d] = m.mSize[s]
    /\ clearForest(m, d).live = m.live \ nodesOf(m, d)
    /\ clearForest(m, d).forest[d] = <<>>
    /\ nodesOf(r, d) \subseteq r.live

\* C26: from every state between calls, d = s and d = std::move(s) with d
\* and s different heaps leave d with the values, trees and mSize of s and
\* with none of its former nodes, which are all freed (the copy allocates one
\* new node per node of s, the move none, and s keeps its nodes or hands them
\* over); d = d and d = std::move(d) change nothing.
C26_AssignmentReplaces ==
    pc.kind = "idle" =>
        \A d \in exists : \A s \in exists :
            IF d = s
            THEN /\ copyAssign(Mach, d, d) = Mach
                 /\ moveAssign(Mach, d, d) = Mach
            ELSE /\ LET r == moveAssign(Mach, d, s)
                    IN /\ replaced(Mach, r, d, s)
                       /\ r.live = live \ nodesOf(Mach, d)
                       /\ nodesOf(r, d) = nodesOf(Mach, s)
                       /\ nodesOf(r, s) = {}
                 /\ forestNodeCount(node, forest[s], 1)
                        <= Cardinality(NodeIds \ clearForest(Mach, d).live)
                    => LET r == copyAssign(Mach, d, s)
                       IN /\ replaced(Mach, r, d, s)
                          /\ Cardinality(r.live) = Cardinality(live)
                                - Cardinality(nodesOf(Mach, d))
                                + Cardinality(nodesOf(Mach, s))
                          /\ nodesOf(r, s) = nodesOf(Mach, s)
                          /\ nodesOf(r, d) \cap nodesOf(r, s) = {}
                          /\ forestShape(r, s) = forestShape(Mach, s)

C26_Witness ==
    /\ pc.kind = "idle"
    /\ \E d \in exists : \E s \in exists \ {d} :
          /\ storedBag(Mach, d) = (1 :> 0 @@ 2 :> 2)
          /\ storedBag(Mach, s) = (1 :> 1 @@ 2 :> 0)
          /\ storedBag(copyAssign(Mach, d, s), d) = (1 :> 1 @@ 2 :> 0)
          /\ storedBag(moveAssign(Mach, d, s), d) = (1 :> 1 @@ 2 :> 0)
          /\ Cardinality(moveAssign(Mach, d, s).live) = 1

\* ---- calls that throw --------------------------------------------------------

\* C27: a getMin, deleteMin or extractMin call that throws changes no
\* forest, no node and no mSize, and the heap can be used afterwards: an
\* insert of v then gives a heap of size 1 whose getMin() is v.
C27_ThrowLeavesHeap ==
    [][(last'.op \in RemovalOps /\ last'.raised) =>
          /\ pc'.kind = "idle"
          /\ forest' = forest /\ mSize' = mSize /\ node' = node /\ live' = live
          /\ exists' = exists
          /\ \A v \in Values :
                live' /= NodeIds =>
                    observed(insert(MachNext, last'.h, v), last'.h) = <<1, v, <<v>> >>]_vars

C27_Witness ==
    /\ pc.kind = "idle" /\ last.op = "extractMin" /\ last.raised
    /\ forest[last.h] = <<NULL, NULL>> /\ mSize[last.h] = 0
    /\ live /= NodeIds
    /\ observed(insert(Mach, last.h, 2), last.h) = <<1, 2, <<2>> >>

\* ---- links of roots and child chains -----------------------------------------

\* C28: in every state the root in every occupied forest slot has a null
\* nextSibling, and so has every root in deletedRootChildren when a
\* deleteMin that can begin merges that vector back.
C28_RootsHaveNoSibling ==
    /\ \A h \in Heaps : \A i \in 1..Len(forest[h]) :
          forest[h][i] /= NULL => node[forest[h][i]].nextSibling = NULL
    /\ pc.kind = "idle" =>
          \A h \in exists :
              (mSize[h] /= 0 /\ minNodeIndex(Mach, h) >= 0) =>
                  LET d == deleteMinDetached(Mach, h)
                  IN \A i \in 1..Len(d.forest[TMP]) :
                        d.forest[TMP][i] /= NULL
                            => d.node[d.forest[TMP][i]].nextSibling = NULL

\* C29: in every state the chain from the leftChild of every allocated node
\* of order k along nextSibling has exactly k nodes, of orders k-1, k-2,
\* ..., 0 in that order, and then a null link.
C29_ChildChainDescends ==
    \A n \in live :
        LET ch == chainUpTo(node, node[n].leftChild, MaxNodes + 1)
        IN /\ Len(ch) = node[n].order
           /\ \A i \in 1..Len(ch) : node[ch[i]].order = node[n].order - i

\* ---- clearForest -------------------------------------------------------------

\* C30: clearForest(forest) on a heap between calls frees every node of the
\* heap and no other, leaves the vector empty and leaves mSize at 0.
C30_ClearForestResets ==
    pc.kind = "idle" =>
        \A h \in exists :
            LET r == clearForest(Mach, h)
            IN /\ r.live = live \ nodesOf(Mach, h)
               /\ r.forest[h] = <<>>
               /\ r.mSize[h] = 0
====
